---- MODULE Spec2Model ----
(***************************************************************************)
(* Model of scripts/vmware_wizard.py: the kernel inventory builder, the    *)
(* eligibility filter and the four-step wizard flow of VMwareWizard.run.   *)
(*                                                                         *)
(* Strings the program inspects character by character (directory names,   *)
(* the derived version string) are sequences of one-character strings.     *)
(***************************************************************************)
EXTENDS Integers, Sequences, FiniteSets, TLC

VARIABLES
    pc,                 \* position of the process in main() / VMwareWizard.run()
    euid,               \* os.geteuid()
    modules_dir,        \* /lib/modules: [exists, entries]
    current_kernel,     \* os.uname().release
    detected_kernels,   \* self.detected_kernels
    supported_kernels,  \* local of run(): the eligible list
    selected_kernel,    \* local of run(): the answer of the kernel prompt
    selected_kernels,   \* self.selected_kernels
    optimization_mode,  \* self.optimization_mode
    hw_capabilities,    \* self.hw_capabilities
    fixer,              \* what the memory pre-check met: existence / exception / returncode
    slept,              \* time.sleep(2) was called by the pre-check
    probe,              \* what the hardware step met: script, subprocess result, the two files
    select_shown,       \* the kernel choice was presented (ui.select of step 1)
    report,             \* the terminal message shown to the operator
    artifact,           \* /tmp/vmware_wizard_config.json written by this run: <<>> or <<config>>
    exit_status         \* sys.exit(main()): <<>> while running, <<code>> afterwards

vars == <<pc, euid, modules_dir, current_kernel, detected_kernels, supported_kernels,
          selected_kernel, selected_kernels, optimization_mode, hw_capabilities, fixer, slept, probe,
          select_shown, report, artifact, exit_status>>

wizard_state == <<detected_kernels, selected_kernels, optimization_mode, hw_capabilities>>

-----------------------------------------------------------------------------
(* Bounds of the model *)

\* largest number of entries of /lib/modules in the inventory specification
MaxEntries == 3
\* largest number of entries of /lib/modules in the wizard-flow specification
MaxFlowEntries == 2

-----------------------------------------------------------------------------
(* Characters and strings *)

DigitChars == <<"0", "1", "2", "3", "4", "5", "6", "7", "8", "9">>

IsDigit(c) == \E d \in 1..10 : DigitChars[d] = c

DigitVal(c) == (CHOOSE d \in 1..10 : DigitChars[d] = c) - 1

\* code point of the characters that occur in the modelled names
Ord(c) ==
    CASE c = " " -> 32
      [] c = "+" -> 43
      [] c = "-" -> 45
      [] c = "." -> 46
      [] IsDigit(c) -> 48 + DigitVal(c)
      [] c = "_" -> 95
      [] c = "a" -> 97
      [] c = "b" -> 98
      [] c = "c" -> 99
      [] c = "x" -> 120

\* str < str: comparison at the first differing position, a proper prefix is smaller
StrLess(a, b) ==
    \/ /\ Len(a) < Len(b)
       /\ \A i \in 1..Len(a) : a[i] = b[i]
    \/ \E i \in 1..Len(a) :
          /\ i <= Len(b)
          /\ \A j \in 1..(i - 1) : a[j] = b[j]
          /\ Ord(a[i]) < Ord(b[i])

\* str.split(sep) with a one-character separator: never an empty list
RECURSIVE split(_, _)
split(s, sep) ==
    IF \A i \in 1..Len(s) : s[i] # sep
    THEN <<s>>
    ELSE LET i == CHOOSE k \in 1..Len(s) :
                     s[k] = sep /\ \A j \in 1..(k - 1) : s[j] # sep
         IN  <<SubSeq(s, 1, i - 1)>> \o split(SubSeq(s, i + 1, Len(s)), sep)

\* str.strip() for the one whitespace character of the alphabet
RECURSIVE strip(_)
strip(s) ==
    IF s = <<>> THEN s
    ELSE IF Head(s) = " " THEN strip(Tail(s))
    ELSE IF s[Len(s)] = " " THEN strip(SubSeq(s, 1, Len(s) - 1))
    ELSE s

RECURSIVE DigitsValue(_)
DigitsValue(s) ==
    IF s = <<>> THEN 0
    ELSE 10 * DigitsValue(SubSeq(s, 1, Len(s) - 1)) + DigitVal(s[Len(s)])

\* int(s): [ok |-> FALSE] stands for ValueError.  Python accepts surrounding
\* whitespace, one sign, and single underscores between digits.
int(s) ==
    LET t      == strip(s)
        signed == t # <<>> /\ Head(t) \in {"+", "-"}
        body   == IF signed THEN Tail(t) ELSE t
        wellformed ==
            /\ body # <<>>
            /\ \A i \in 1..Len(body) : IsDigit(body[i]) \/ body[i] = "_"
            /\ IsDigit(body[1]) /\ IsDigit(body[Len(body)])
            /\ \A i \in 1..(Len(body) - 1) : ~(body[i] = "_" /\ body[i + 1] = "_")
        digits == SelectSeq(body, IsDigit)
        mag    == DigitsValue(digits)
    IN  IF wellformed
        THEN [ok |-> TRUE, val |-> IF signed /\ Head(t) = "-" THEN 0 - mag ELSE mag]
        ELSE [ok |-> FALSE, val |-> 0]

\* str(n) of a non-negative integer, as the f-string formats it
RECURSIVE str(_)
str(n) ==
    IF n < 10 THEN <<DigitChars[n + 1]>>
    ELSE str(n \div 10) \o <<DigitChars[(n % 10) + 1]>>

-----------------------------------------------------------------------------
(* Kernel inventory builder: VMwareWizard.detect_installed_kernels *)

\* the allow-list of minor versions of major 6
SupportedMinors == {16, 17, 18}

\* a range test in place of the allow-list
IsSupportedRange(major, minor) == major = 6 /\ minor >= 16

IsSupported(major, minor) == major = 6 /\ minor \in SupportedMinors

\* the try block that parses a directory name; [ok |-> FALSE] is the
\* except (ValueError, IndexError): continue
ParseVersion(full_version) ==
    LET version_parts == split(split(full_version, "-")[1], ".")
        major == int(version_parts[1])
        minor == IF Len(version_parts) > 1 THEN int(version_parts[2])
                 ELSE [ok |-> TRUE, val |-> 0]
        patch == IF Len(version_parts) > 2 THEN int(version_parts[3])
                 ELSE [ok |-> TRUE, val |-> 0]
    IN  IF major.ok /\ minor.ok /\ patch.ok
        THEN [ok |-> TRUE, major |-> major.val, minor |-> minor.val, patch |-> patch.val,
              version |-> str(major.val) \o <<".">> \o str(minor.val)]
        ELSE [ok |-> FALSE, major |-> 0, minor |-> 0, patch |-> 0, version |-> <<>>]

\* directory names of the environment
Name_6_17_0_1 == <<"6", ".", "1", "7", ".", "0", "-", "1">>
Name_6_19_0_2 == <<"6", ".", "1", "9", ".", "0", "-", "2">>
Name_6_9_1    == <<"6", ".", "9", ".", "1">>
Name_6_18     == <<"6", ".", "1", "8">>
Name_6        == <<"6">>
Name_5_16_0   == <<"5", ".", "1", "6", ".", "0">>
Name_6_15_7   == <<"6", ".", "1", "5", ".", "7">>
Name_6_16_x   == <<"6", ".", "1", "6", ".", "x">>
Name_6_x_1    == <<"6", ".", "x", "-", "1">>
Name_abc      == <<"a", "b", "c">>
Name_dash     == <<"-", "6", ".", "1", "7">>
Name_6_1_7_0  == <<"6", ".", "1", "_", "7", ".", "0">>

\* directory names of the inventory specification
InventoryNames ==
    {Name_6_17_0_1, Name_6_19_0_2, Name_6_9_1, Name_6_18, Name_6, Name_5_16_0,
     Name_6_15_7, Name_6_16_x, Name_6_x_1, Name_abc, Name_dash, Name_6_1_7_0}

\* directory names of the wizard-flow specification
FlowNames == {Name_6_17_0_1, Name_6_18, Name_6_19_0_2, Name_6_16_x}

\* the KernelInfo appended for one directory entry whose name parsed
KernelInfo(entry, p, current) ==
        [version           |-> p.version,
         full_version      |-> entry.name,
         major             |-> p.major,
         minor             |-> p.minor,
         patch             |-> p.patch,
         headers_installed |-> (entry.build = "dir"),
         headers_path      |-> <<"/lib/modules", entry.name, "build">>,
         is_current        |-> (entry.name = current),
         supported         |-> IsSupported(p.major, p.minor)]

\* sorted(modules_dir.iterdir()): the entries in ascending order of their names
RECURSIVE sorted(_)
sorted(entries) ==
    IF entries = {} THEN <<>>
    ELSE LET first == CHOOSE e \in entries :
                          \A o \in entries \ {e} : StrLess(e.name, o.name)
         IN  <<first>> \o sorted(entries \ {first})

\* the loop with a parse failure ending it instead of skipping the entry
RECURSIVE BuildInventoryAbort(_, _)
BuildInventoryAbort(listing, current) ==
    IF listing = <<>> THEN <<>>
    ELSE LET entry  == Head(listing)
             parsed == ParseVersion(entry.name)
             rest   == BuildInventoryAbort(Tail(listing), current)
         IN  IF ~entry.is_dir THEN rest
             ELSE IF ~parsed.ok THEN <<>>
             ELSE <<KernelInfo(entry, parsed, current)>> \o rest

\* the loop body applied to the sorted listing
RECURSIVE BuildInventory(_, _)
BuildInventory(listing, current) ==
    IF listing = <<>> THEN <<>>
    ELSE LET entry  == Head(listing)
             parsed == ParseVersion(entry.name)
             rest   == BuildInventory(Tail(listing), current)
         IN  IF ~entry.is_dir THEN rest
             ELSE IF ~parsed.ok THEN rest
             ELSE <<KernelInfo(entry, parsed, current)>> \o rest

detect_installed_kernels(dir, current) ==
    IF ~dir.exists THEN <<>>
    ELSE BuildInventory(sorted(dir.entries), current)

\* the list comprehension of run(): supported kernels with headers
\* the filter without the header test
IsEligibleNoHeaders(k) == k.supported

IsEligible(k) == k.supported /\ k.headers_installed

EligibleFilter(kernels) == SelectSeq(kernels, IsEligible)

-----------------------------------------------------------------------------
(* The environment the program reads: directory names, files, subprocesses *)

\* one entry of /lib/modules: a regular file, or a directory whose `build`
\* is absent, a regular file or a directory
EntryKinds == {"file", "dir", "dir_build_file", "dir_build_dir"}

Entry(name, kind) ==
    [name   |-> name,
     is_dir |-> (kind # "file"),
     build  |-> CASE kind = "dir_build_file" -> "file"
                  [] kind = "dir_build_dir" -> "dir"
                  [] OTHER -> "none"]

\* /lib/modules is missing, or lists at most n entries over the names
ModulesDirIs(dir, names, n) ==
    \/ dir = [exists |-> FALSE, entries |-> {}]
    \/ \E present \in {ns \in SUBSET names : Cardinality(ns) <= n} :
          \E kind \in [present -> EntryKinds] :
             dir = [exists |-> TRUE, entries |-> {Entry(nm, kind[nm]) : nm \in present}]

\* JSON values a capability file may hold
EmptyCaps        == [kind |-> "dict", other_keys |-> FALSE, optimization |-> "absent",
                     recommended_mode |-> "absent"]
CapsNoOptimization == [kind |-> "dict", other_keys |-> TRUE, optimization |-> "absent",
                     recommended_mode |-> "absent"]
CapsRecOptimized == [kind |-> "dict", other_keys |-> TRUE, optimization |-> "dict",
                     recommended_mode |-> "optimized"]
CapsRecVanilla   == [kind |-> "dict", other_keys |-> TRUE, optimization |-> "dict",
                     recommended_mode |-> "vanilla"]
CapsOptNumber    == [kind |-> "dict", other_keys |-> FALSE, optimization |-> "number",
                     recommended_mode |-> "absent"]
CapsModeNull     == [kind |-> "dict", other_keys |-> FALSE, optimization |-> "dict",
                     recommended_mode |-> "null"]
JsonList         == [kind |-> "list", other_keys |-> FALSE, optimization |-> "absent",
                     recommended_mode |-> "absent"]
JsonNull         == [kind |-> "null", other_keys |-> FALSE, optimization |-> "absent",
                     recommended_mode |-> "absent"]

JsonValues == {EmptyCaps, CapsNoOptimization, CapsRecOptimized, CapsRecVanilla,
               CapsOptNumber, CapsModeNull, JsonList, JsonNull}

\* content of one capability file when the wizard looks at it
Absent    == [state |-> "absent", value |-> EmptyCaps]
Malformed == [state |-> "malformed", value |-> EmptyCaps]
Json(v)   == [state |-> "json", value |-> v]

FileContents == {Absent, Malformed} \cup {Json(v) : v \in JsonValues}

FilePairs ==
    {<<c, Absent>> : c \in FileContents}
        \cup {<<Absent, c>> : c \in FileContents}
        \cup {<<Malformed, Json(CapsRecVanilla)>>, <<Json(EmptyCaps), Json(CapsRecVanilla)>>}

StalePairs == {<<Absent, Absent>>, <<Json(CapsNoOptimization), Absent>>}

\* what the hardware step meets: the script is missing; subprocess.run raises
\* (TimeoutExpired, OSError); or the probe ends with exit code zero or non-zero
ProbeNotRun == [result |-> "not_run", file1 |-> Absent, file2 |-> Absent]

ProbeEnvs ==
    {[result |-> r, file1 |-> p[1], file2 |-> p[2]] :
        r \in {"exit0", "nonzero"}, p \in FilePairs}
        \cup {[result |-> r, file1 |-> p[1], file2 |-> p[2]] :
                r \in {"missing", "timeout", "oserror"}, p \in StalePairs}

\* what the memory pre-check meets
FixerNotRun == [exists |-> FALSE, raises |-> FALSE, returncode |-> 0, ran |-> FALSE]

FixerEnvs ==
    {[exists |-> FALSE, raises |-> FALSE, returncode |-> 0, ran |-> TRUE],
     [exists |-> TRUE, raises |-> TRUE, returncode |-> 0, ran |-> TRUE]}
        \cup {[exists |-> TRUE, raises |-> FALSE, returncode |-> rc, ran |-> TRUE] :
                rc \in 0..3}

-----------------------------------------------------------------------------
(* The terminal UI (vmware_ui.VMwareUI): the answers its prompts can return *)

\* ui.confirm(message, default): the operator accepts or declines
confirm == BOOLEAN

\* ui.select(message, choices, default): the value of one of the choices
select(choices) == {choices[i][2] : i \in 1..Len(choices)}

-----------------------------------------------------------------------------
(* Hardware detection: VMwareWizard.run_hardware_detection *)

\* the value of self.hw_capabilities when the method returns
run_hardware_detection(hw, env) ==
    IF env.result = "missing" THEN EmptyCaps
    ELSE IF env.result \in {"timeout", "oserror"} THEN EmptyCaps
    ELSE IF env.file1.state # "absent"
         THEN IF env.file1.state = "malformed" THEN EmptyCaps ELSE env.file1.value
    ELSE IF env.file2.state # "absent"
         THEN IF env.file2.state = "malformed" THEN EmptyCaps ELSE env.file2.value
    ELSE hw

\* hw_capabilities.get('optimization', {}).get('recommended_mode', 'optimized')
\* followed by recommended.upper(): "raise" stands for the AttributeError
RecommendedMode(hw) ==
    IF hw.kind # "dict" THEN "raise"
    ELSE IF hw.optimization = "absent" THEN "optimized"
    ELSE IF hw.optimization # "dict" THEN "raise"
    ELSE IF hw.recommended_mode = "absent" THEN "optimized"
    ELSE IF hw.recommended_mode = "null" THEN "raise"
    ELSE hw.recommended_mode

-----------------------------------------------------------------------------
(* Configuration export *)

KernelSummary(k) ==
    [full_version |-> k.full_version, version |-> k.version, major |-> k.major,
     minor |-> k.minor, patch |-> k.patch, is_current |-> k.is_current]

RECURSIVE KernelSummaries(_)
KernelSummaries(ks) ==
    IF ks = <<>> THEN <<>> ELSE <<KernelSummary(Head(ks))>> \o KernelSummaries(Tail(ks))

\* the config dictionary run() dumps after the final confirmation
RunConfig(selected, mode, hw) ==
    [selected_kernels     |-> KernelSummaries(selected),
     optimization_mode    |-> mode,
     hw_capabilities      |-> hw,
     timestamp            |-> "time.time()",
     auto_configure_iommu |-> (mode = "optimized")]

\* the config dictionary export_configuration() dumps
ExportConfig(selected, mode, hw) ==
    [selected_kernels    |-> KernelSummaries(selected),
     optimization_mode   |-> mode,
     hw_capabilities     |-> hw,
     timestamp           |-> "time.time()",
     offer_system_tuning |-> TRUE]

-----------------------------------------------------------------------------
(* Exit codes *)

\* return value of run() when no supported kernel has headers
NoEligibleExit == 1

Terminate(message, code) ==
    /\ pc' = "done"
    /\ report' = message
    /\ exit_status' = <<code>>

-----------------------------------------------------------------------------
(* main() and VMwareWizard.run() *)

\* VMwareWizard.__init__ and the environment of the process
InitWizard ==
    /\ pc = "main"
    /\ detected_kernels = <<>>
    /\ supported_kernels = <<>>
    /\ selected_kernel = [kind |-> "none"]
    /\ selected_kernels = <<>>
    /\ optimization_mode = "optimized"
    /\ hw_capabilities = EmptyCaps
    /\ fixer = FixerNotRun
    /\ slept = FALSE
    /\ probe = ProbeNotRun
    /\ select_shown = FALSE
    /\ report = "none"
    /\ artifact = <<>>
    /\ exit_status = <<>>

Init ==
    /\ InitWizard
    /\ euid \in {0, 1000}
    /\ ModulesDirIs(modules_dir, FlowNames, MaxFlowEntries)
    /\ current_kernel \in {Name_6_17_0_1, Name_6_19_0_2}

\* main(): the privilege check
Main ==
    /\ pc = "main"
    /\ IF euid # 0
       THEN Terminate("not_root", 1)
       ELSE pc' = "precheck" /\ UNCHANGED <<report, exit_status>>
    /\ UNCHANGED <<selected_kernel, euid, modules_dir, current_kernel, detected_kernels, supported_kernels,
                   selected_kernels, optimization_mode, hw_capabilities, fixer, slept,
                   probe, select_shown, artifact>>

\* the pre-check without its try/except
check_and_fix_memory_unguarded(env) ==
    [slept  |-> (env.exists /\ ~env.raises /\ env.returncode = 0),
     raised |-> (env.exists /\ env.raises)]

\* check_and_fix_memory_saturation(): whether it pauses, and whether an
\* exception leaves it (the try/except swallows every Exception)
check_and_fix_memory_saturation(env) ==
    [slept  |-> (env.exists /\ ~env.raises /\ env.returncode = 0),
     raised |-> FALSE]

\* the pre-check, then the banner up to the first prompt
CheckAndFixMemory ==
    /\ pc = "precheck"
    /\ \E env \in FixerEnvs :
          LET out == check_and_fix_memory_saturation(env)
          IN  /\ fixer' = env
              /\ slept' = out.slept
              /\ IF out.raised
                 THEN Terminate("error", 1)
                 ELSE pc' = "confirm1" /\ UNCHANGED <<report, exit_status>>
    /\ UNCHANGED <<selected_kernel, euid, modules_dir, current_kernel, detected_kernels, supported_kernels,
                   selected_kernels, optimization_mode, hw_capabilities, probe,
                   select_shown, artifact>>

\* the first prompt with a decline returning success
ConfirmStartReturnsZero ==
    /\ pc = "confirm1"
    /\ \E answer \in confirm :
          IF ~answer
          THEN Terminate("cancelled", 0)
          ELSE pc' = "detect" /\ UNCHANGED <<report, exit_status>>
    /\ UNCHANGED <<selected_kernel, euid, modules_dir, current_kernel, detected_kernels,
                   supported_kernels, selected_kernels, optimization_mode,
                   hw_capabilities, fixer, slept, probe, select_shown, artifact>>

\* "Ready to start the installation?"
ConfirmStart ==
    /\ pc = "confirm1"
    /\ \E answer \in confirm :
          IF ~answer
          THEN Terminate("cancelled", 1)
          ELSE pc' = "detect" /\ UNCHANGED <<report, exit_status>>
    /\ UNCHANGED <<selected_kernel, euid, modules_dir, current_kernel, detected_kernels, supported_kernels,
                   selected_kernels, optimization_mode, hw_capabilities, fixer, slept,
                   probe, select_shown, artifact>>

\* step 1 with the empty-inventory test applied to the eligible list
Step1OutcomeOneTest(detected, eligible) ==
    IF eligible = <<>> THEN "no_kernels" ELSE "select"

\* the two failure tests of step 1
Step1Outcome(detected, eligible) ==
    IF detected = <<>> THEN "no_kernels"
    ELSE IF eligible = <<>> THEN "headers_missing"
    ELSE "select"

\* step 1 up to the kernel prompt: inventory, eligibility filter, the two failures
DetectKernels ==
    /\ pc = "detect"
    /\ LET detected == detect_installed_kernels(modules_dir, current_kernel)
           eligible == EligibleFilter(detected)
       IN  /\ detected_kernels' = detected
           /\ supported_kernels' = IF detected = <<>> THEN supported_kernels ELSE eligible
           /\ CASE Step1Outcome(detected, eligible) = "no_kernels" ->
                    Terminate("no_kernels", 1) /\ UNCHANGED select_shown
                [] Step1Outcome(detected, eligible) = "headers_missing" ->
                    Terminate("headers_missing", NoEligibleExit) /\ UNCHANGED select_shown
                [] Step1Outcome(detected, eligible) = "select" ->
                    /\ pc' = "select"
                    /\ select_shown' = TRUE
                    /\ UNCHANGED <<report, exit_status>>
    /\ UNCHANGED <<selected_kernel, euid, modules_dir, current_kernel, selected_kernels, optimization_mode,
                   hw_capabilities, fixer, slept, probe, artifact>>

\* kernel_choices: one (label, value) per eligible kernel, then the "all" option
RECURSIVE KernelChoices(_)
KernelChoices(ks) ==
    IF ks = <<>>
    THEN << <<"All supported kernels with headers", [kind |-> "all"]>> >>
    ELSE << <<Head(ks).full_version, [kind |-> "kernel", kernel |-> Head(ks)]>> >>
            \o KernelChoices(Tail(ks))

\* the "all" answer taking the full inventory instead of the eligible list
SelectedFromInventory(answer, eligible) ==
    IF answer.kind = "all" THEN detected_kernels ELSE <<answer.kernel>>

\* what the answer of the kernel prompt makes of self.selected_kernels
SelectedFrom(answer, eligible) ==
    IF answer.kind = "all" THEN eligible ELSE <<answer.kernel>>

\* the answer of the kernel prompt
SelectKernel ==
    /\ pc = "select"
    /\ \E answer \in select(KernelChoices(supported_kernels)) :
          /\ selected_kernel' = answer
          /\ selected_kernels' = SelectedFrom(answer, supported_kernels)
    /\ pc' = "hwdetect"
    /\ UNCHANGED <<euid, modules_dir, current_kernel, detected_kernels, supported_kernels,
                   optimization_mode, hw_capabilities, fixer, slept, probe, select_shown,
                   report, artifact, exit_status>>

\* step 2 and step 3 up to the mode prompt: the probe, then the two lookups
HardwareDetection ==
    /\ pc = "hwdetect"
    /\ \E env \in ProbeEnvs :
          LET hw == run_hardware_detection(hw_capabilities, env)
          IN  /\ probe' = env
              /\ hw_capabilities' = hw
              /\ IF RecommendedMode(hw) = "raise"
                 THEN Terminate("error", 1)
                 ELSE pc' = "mode" /\ UNCHANGED <<report, exit_status>>
    /\ UNCHANGED <<selected_kernel, euid, modules_dir, current_kernel, detected_kernels, supported_kernels,
                   selected_kernels, optimization_mode, fixer, slept, select_shown,
                   artifact>>

ModeChoices == << <<"Optimized", "optimized">>, <<"Vanilla", "vanilla">> >>

\* the answer of the mode prompt, then the review panel
SelectMode ==
    /\ pc = "mode"
    /\ \E mode \in select(ModeChoices) : optimization_mode' = mode
    /\ pc' = "confirm2"
    /\ UNCHANGED <<selected_kernel, euid, modules_dir, current_kernel, detected_kernels, supported_kernels,
                   selected_kernels, hw_capabilities, fixer, slept, probe, select_shown,
                   report, artifact, exit_status>>

\* "Proceed with installation?": on acceptance the config file is written
ConfirmFinal ==
    /\ pc = "confirm2"
    /\ \E answer \in confirm :
          IF ~answer
          THEN Terminate("cancelled", 1) /\ UNCHANGED artifact
          ELSE /\ artifact' = <<RunConfig(selected_kernels, optimization_mode,
                                         hw_capabilities)>>
               /\ pc' = "saved"
               /\ UNCHANGED <<report, exit_status>>
    /\ UNCHANGED <<selected_kernel, euid, modules_dir, current_kernel, detected_kernels, supported_kernels,
                   selected_kernels, optimization_mode, hw_capabilities, fixer, slept,
                   probe, select_shown>>

\* the messages after the write, then return 0
Finish ==
    /\ pc = "saved"
    /\ Terminate("saved", 0)
    /\ UNCHANGED <<selected_kernel, euid, modules_dir, current_kernel, detected_kernels, supported_kernels,
                   selected_kernels, optimization_mode, hw_capabilities, fixer, slept,
                   probe, select_shown, artifact>>

\* positions inside the try block of run()
InTry == {"precheck", "confirm1", "detect", "select", "hwdetect", "mode", "confirm2", "saved"}

\* except KeyboardInterrupt: Ctrl+C while the flow waits or prints
Interrupt ==
    /\ pc \in InTry
    /\ Terminate("cancelled_ctrl_c", 1)
    /\ UNCHANGED <<selected_kernel, euid, modules_dir, current_kernel, detected_kernels, supported_kernels,
                   selected_kernels, optimization_mode, hw_capabilities, fixer, slept,
                   probe, select_shown, artifact>>

Next ==
    \/ Main
    \/ CheckAndFixMemory
    \/ ConfirmStart
    \/ DetectKernels
    \/ SelectKernel
    \/ HardwareDetection
    \/ SelectMode
    \/ ConfirmFinal
    \/ Finish
    \/ Interrupt

Spec == Init /\ [][Next]_vars

-----------------------------------------------------------------------------
(* The class used as a library: export_configuration() called on a wizard   *)
(* object before or after run()                                             *)

export_configuration ==
    /\ pc \in {"precheck", "done"}
    /\ report # "not_root"
    /\ artifact' = <<ExportConfig(selected_kernels, optimization_mode, hw_capabilities)>>
    /\ UNCHANGED <<pc, euid, modules_dir, current_kernel, detected_kernels,
                   supported_kernels, selected_kernel, selected_kernels,
                   optimization_mode, hw_capabilities, fixer, slept, probe,
                   select_shown, report, exit_status>>

NextAPI == Next \/ export_configuration

SpecAPI == Init /\ [][NextAPI]_vars

-----------------------------------------------------------------------------
(* The inventory builder and the eligibility filter on their own *)

InitInventory ==
    /\ InitWizard
    /\ euid = 0
    /\ ModulesDirIs(modules_dir, InventoryNames, MaxEntries)
    /\ current_kernel = Name_6_17_0_1

BuildKernelInventory ==
    /\ pc = "main"
    /\ detected_kernels' = detect_installed_kernels(modules_dir, current_kernel)
    /\ pc' = "detected"
    /\ UNCHANGED <<euid, modules_dir, current_kernel, supported_kernels, selected_kernel,
                   selected_kernels, optimization_mode, hw_capabilities, fixer, slept,
                   probe, select_shown, report, artifact, exit_status>>

FilterEligible ==
    /\ pc = "detected"
    /\ supported_kernels' = EligibleFilter(detected_kernels)
    /\ pc' = "filtered"
    /\ UNCHANGED <<euid, modules_dir, current_kernel, detected_kernels, selected_kernel,
                   selected_kernels, optimization_mode, hw_capabilities, fixer, slept,
                   probe, select_shown, report, artifact, exit_status>>

NextInventory == BuildKernelInventory \/ FilterEligible

SpecInventory == InitInventory /\ [][NextInventory]_vars

-----------------------------------------------------------------------------
(* Properties *)

Range(seq) == {seq[i] : i \in DOMAIN seq}

\* the dot-separated components of the first dash-segment of a directory name
Components(name) == split(split(name, "-")[1], ".")

\* the major, minor and patch components, as far as the name has them
VersionComponents(name) ==
    LET c == Components(name)
    IN  SubSeq(c, 1, IF Len(c) < 3 THEN Len(c) ELSE 3)

AllDigits(s) == s # <<>> /\ \A i \in DOMAIN s : IsDigit(s[i])

\* <int>[.<int>[.<int>]][-suffix] with plain decimal components
HasVersionForm(name) ==
    LET c == Components(name)
    IN  Len(c) <= 3 /\ \A i \in DOMAIN c : AllDigits(c[i])

\* every one of the major, minor and patch components is text int() accepts
Parseable(name) ==
    LET c == VersionComponents(name)
    IN  \A i \in DOMAIN c : int(c[i]).ok

ComponentOrZero(name, i) ==
    LET c == Components(name)
    IN  IF i <= Len(c) THEN c[i] ELSE <<"0">>

ProbeFailed ==
    \/ probe.result \in {"missing", "timeout", "oserror", "nonzero"}
    \/ /\ probe.result = "exit0"
       /\ \/ probe.file1.state = "malformed"
          \/ probe.file1.state = "absent" /\ probe.file2.state = "malformed"

\* C1: when the hardware probe is missing, times out, exits non-zero or leaves
\* malformed output, hw_capabilities is the empty mapping (also in the exported
\* config), the flow is not ended by an exception and goes on to mode selection,
\* whatever the two capability files held.
C1_ProbeFailureYieldsEmptyCapabilities ==
    ProbeFailed =>
        /\ hw_capabilities = EmptyCaps
        /\ report # "error"
        /\ artifact # <<>> => artifact[1].hw_capabilities = EmptyCaps

\* C2: a finished run has exit status 0 exactly when it wrote the artifact.
C2_ExitZeroIffArtifactWritten ==
    pc = "done" => (exit_status = <<0>> <=> artifact # <<>>)

Cancelled == {"cancelled", "cancelled_ctrl_c"}

\* C3 (as claimed): a run cancelled by the operator ends with an exit status
\* different from the one of a run that found no eligible kernel.
C3_CancelledStatusDistinct ==
    (pc = "done" /\ report \in Cancelled) => exit_status # <<NoEligibleExit>>

\* C3 (amended): a run cancelled by the operator (decline at either prompt, or
\* interrupt) ends with exit status 1, and so does a run that found no eligible
\* kernel; the two differ in the message reported, not in the exit status.
C3_CancelledAndNoEligibleBothExitOne ==
    (pc = "done" /\ report \in Cancelled \cup {"headers_missing"}) => exit_status = <<1>>

C3_Witness ==
    pc = "done" /\ report = "cancelled" /\ detected_kernels = <<>> /\ exit_status = <<1>>

C4_TerminalStates ==
    /\ report = "no_kernels" =>
          /\ detected_kernels = <<>>
          /\ pc = "done" /\ exit_status = <<1>>
          /\ ~select_shown /\ probe = ProbeNotRun /\ artifact = <<>>
    /\ report = "headers_missing" =>
          /\ detected_kernels # <<>>
          /\ \A i \in DOMAIN detected_kernels :
                ~(detected_kernels[i].supported /\ detected_kernels[i].headers_installed)
          /\ pc = "done" /\ exit_status = <<1>>
          /\ ~select_shown /\ probe = ProbeNotRun /\ artifact = <<>>

C4_Step1 ==
    (pc = "detect" /\ report' # "cancelled_ctrl_c") =>
        /\ detected_kernels' = <<>> => report' = "no_kernels"
        /\ (/\ detected_kernels' # <<>>
            /\ \A i \in DOMAIN detected_kernels' :
                  ~(detected_kernels'[i].supported /\ detected_kernels'[i].headers_installed))
              => report' = "headers_missing"

\* C4: step 1 ends the flow with the 'no kernels' failure when the inventory is
\* empty and with the 'headers missing' failure when the inventory is non-empty
\* but holds no supported kernel with headers; either way with a non-zero status,
\* no kernel choice presented, no hardware probe run and no artifact written.
C4_Step1Failures == []C4_TerminalStates /\ [][C4_Step1]_vars

C4_Witness ==
    /\ report = "headers_missing"
    /\ \E i \in DOMAIN detected_kernels :
          detected_kernels[i].supported /\ ~detected_kernels[i].headers_installed

AfterSelection == {"hwdetect", "mode", "confirm2", "saved"}

C5_SelectionState ==
    /\ pc \in AfterSelection =>
          /\ selected_kernel.kind = "all" => selected_kernels = supported_kernels
          /\ selected_kernel.kind = "kernel" =>
                /\ selected_kernels = <<selected_kernel.kernel>>
                /\ selected_kernel.kernel \in Range(supported_kernels)
    /\ artifact # <<>> =>
          LET exported == artifact[1].selected_kernels
          IN  /\ Len(exported) >= 1
              /\ Len(exported) = Len(selected_kernels)
              /\ \A i \in DOMAIN exported :
                    /\ exported[i].full_version = selected_kernels[i].full_version
                    /\ \E k \in Range(detected_kernels) :
                          /\ k.full_version = exported[i].full_version
                          /\ k.supported /\ k.headers_installed

C5_LaterSteps == pc \in AfterSelection => selected_kernels' = selected_kernels

\* C5: the kernel prompt yields exactly the chosen kernel or, for the "all"
\* option, the whole eligible list in its order; every exported config lists at
\* least one kernel and only supported kernels with headers; hardware detection
\* and mode selection leave the selection unchanged.
C5_Selection == []C5_SelectionState /\ [][C5_LaterSteps]_vars

C5_Witness ==
    /\ artifact # <<>>
    /\ selected_kernel.kind = "all"
    /\ Len(artifact[1].selected_kernels) < Len(detected_kernels)

\* C6: the eligible list is exactly the inventory records that are supported
\* and have headers, in inventory order, and the inventory is in ascending order
\* of directory names (not of version numbers).
C6_FilterIsOrderedEligibleSubsequence ==
    /\ \A i, j \in DOMAIN detected_kernels :
          i < j => StrLess(detected_kernels[i].full_version, detected_kernels[j].full_version)
    /\ pc = "filtered" =>
          /\ Range(supported_kernels) =
                {k \in Range(detected_kernels) : k.supported /\ k.headers_installed}
          /\ \A i, j \in DOMAIN supported_kernels :
                i < j => \E a, b \in DOMAIN detected_kernels :
                            /\ a < b
                            /\ detected_kernels[a] = supported_kernels[i]
                            /\ detected_kernels[b] = supported_kernels[j]

C6_Witness ==
    /\ pc = "filtered"
    /\ Len(supported_kernels) = 2
    /\ Len(detected_kernels) = 3
    /\ \E i, j \in DOMAIN detected_kernels :
          /\ i < j
          /\ detected_kernels[i].major = detected_kernels[j].major
          /\ detected_kernels[i].minor > detected_kernels[j].minor

\* C7: every exported config carries auto_configure_iommu, true exactly when
\* optimization_mode is "optimized", and its optimization_mode is the mode chosen.
C7_IommuIffOptimized ==
    artifact # <<>> =>
        /\ "auto_configure_iommu" \in DOMAIN artifact[1]
        /\ artifact[1].auto_configure_iommu <=> (artifact[1].optimization_mode = "optimized")
        /\ artifact[1].optimization_mode = optimization_mode

C9_UnparseableEntriesAreSkipped ==
    pc # "main" =>
        /\ {k.full_version : k \in Range(detected_kernels)} =
              {e.name : e \in {d \in modules_dir.entries : d.is_dir /\ Parseable(d.name)}}
        /\ Len(detected_kernels) = Cardinality({k.full_version : k \in Range(detected_kernels)})

C9_Witness ==
    /\ pc # "main"
    /\ \E e \in modules_dir.entries :
          /\ e.is_dir /\ ~Parseable(e.name)
          /\ \E k \in Range(detected_kernels) : StrLess(e.name, k.full_version)
    /\ \E e \in modules_dir.entries : e.is_dir /\ ~int(Components(e.name)[1]).ok

C10_PreCheckStep ==
    (pc = "precheck" /\ fixer'.ran) =>
        /\ pc' = "confirm1"
        /\ exit_status' = <<>>
        /\ report' = report
        /\ wizard_state' = wizard_state

\* C10: the memory pre-check runs before the first prompt and, whatever the
\* fixer's exit code, also when the fixer is missing or invoking it raises,
\* the flow goes on to the first prompt with the wizard state unchanged.
C10_PreCheckNeverStopsTheWizard ==
    [](pc \in {"confirm1", "detect"} => fixer.ran) /\ [][C10_PreCheckStep]_vars

C10_Witness ==
    pc = "confirm1" /\ fixer.exists /\ fixer.raises /\ exit_status = <<>>

====
